---------------------------- MODULE Spec2Model ----------------------------
(***************************************************************************)
(* A model of aiocqhttp/message.py: the escape codec, MessageSegment's     *)
(* rendering, the CQ-code parser (Message._split_iter) and the Message     *)
(* list operations (append, extend, +, reduce, extract_plain_text).        *)
(*                                                                         *)
(* A Python str is a sequence of one-character strings; a dict with        *)
(* insertion order is a sequence of <<key, value>> pairs with unique keys; *)
(* the mutable "data" dict of each MessageSegment lives in a heap, so that *)
(* two lists holding the same segment object see each other's in-place     *)
(* updates, as they do in Python. No operation modelled here changes a     *)
(* segment's type or rebinds its data, so a list element is the pair of    *)
(* the type and the reference of the data dict.                            *)
(***************************************************************************)
EXTENDS Integers, Sequences, FiniteSets, TLC

VARIABLES
    heap,      \* heap[r]: the "data" dict of the segment object with reference r
    a,         \* a Message: a sequence of segments [type, ref]
    b,         \* a second Message (the right operand of +)
    c,         \* the Message returned by the last a + b
    pc,        \* "idle", or the position inside a running handler
    it,        \* the list iterator's index of the running extend's for loop
    src,       \* what the running extend iterates over
    last,      \* the last completed call: its name, whether it raised, what it returned
    input,     \* the argument of a pure function under check
    mid,       \* an intermediate value of a pure computation
    output     \* the value the pure computation returned

vars == <<heap, a, b, c, pc, it, src, last, input, mid, output>>

---------------------------------------------------------------------------
(* Bounds of the model. *)

\* the number of fragments an input string of the escape codec is built from
MaxFrags == 3

\* the number of fragments a string given to the parser is built from
MaxParseFrags == 4

\* the longest Message (in segments) the list operations build
MaxSegs == 3

\* the number of segment objects allocated in one behaviour
MaxObjs == 2

\* the longest text payload (in characters) an append builds
MaxText == 2

\* the longest text payload (in characters) a reduce builds
MaxReduced == 4

\* the longest Message (in segments) that is composed and parsed again
MaxRoundTrip == 2

---------------------------------------------------------------------------
(* Strings. *)

\* all sequences over A of length at most n
SeqUpTo(A, n) == UNION {[1..k -> A] : k \in 0..n}

RECURSIVE Concat(_)
\* ''.join(ss)
Concat(ss) == IF ss = <<>> THEN <<>> ELSE Head(ss) \o Concat(Tail(ss))

\* s.startswith(p)
StartsWith(s, p) == Len(s) >= Len(p) /\ SubSeq(s, 1, Len(p)) = p

\* p in s
Contains(s, p) == \E i \in 1..(Len(s) - Len(p) + 1) : SubSeq(s, i, i + Len(p) - 1) = p

RECURSIVE Replace(_, _, _)
\* str.replace(old, new): every non-overlapping occurrence, left to right
Replace(s, old, new) ==
    IF Len(s) < Len(old) THEN s
    ELSE IF StartsWith(s, old)
         THEN new \o Replace(SubSeq(s, Len(old) + 1, Len(s)), old, new)
         ELSE <<Head(s)>> \o Replace(Tail(s), old, new)

AMP   == <<"&">>
LBR   == <<"[">>
RBR   == <<"]">>
COMMA == <<",">>
EAMP   == <<"&", "a", "m", "p", ";">>
ELBR   == <<"&", "#", "9", "1", ";">>
ERBR   == <<"&", "#", "9", "3", ";">>
ECOMMA == <<"&", "#", "4", "4", ";">>

---------------------------------------------------------------------------
(* The escape codec. *)

\* a plausible slip: the ampersand is replaced last, after the others
escapeAmpLast(s, escape_comma) ==
    LET s1 == Replace(Replace(s, LBR, ELBR), RBR, ERBR)
        s2 == IF escape_comma THEN Replace(s1, COMMA, ECOMMA) ELSE s1
    IN  Replace(s2, AMP, EAMP)

escape(s, escape_comma) ==
    LET s1 == Replace(Replace(Replace(s, AMP, EAMP), LBR, ELBR), RBR, ERBR)
    IN  IF escape_comma THEN Replace(s1, COMMA, ECOMMA) ELSE s1

unescape(s) ==
    Replace(Replace(Replace(Replace(s, ECOMMA, COMMA), ELBR, LBR), ERBR, RBR), EAMP, AMP)

\* the pieces the codec's input strings are drawn from
EscFrags == {AMP, LBR, RBR, COMMA, <<"a">>, <<"a", "m", "p", ";">>,
             <<"#", "9", "1", ";">>, <<"#", "4", "4", ";">>, <<";">>, <<"&", "#">>}

EscInputs == {Concat(fs) : fs \in SeqUpTo(EscFrags, MaxFrags)}

\* s holds none of the four escape sequences
NoEscapeSeq(s) == \A e \in {EAMP, ELBR, ERBR, ECOMMA} : ~Contains(s, e)

Idle == /\ heap = <<>> /\ a = <<>> /\ b = <<>> /\ c = <<>>
        /\ it = 0 /\ src = <<>> /\ last = [op |-> "none"]

InitEscape ==
    /\ Idle
    /\ pc = "escape"
    /\ input \in EscInputs
    /\ mid = <<>>
    /\ output = <<>>

DoEscape ==
    /\ pc = "escape"
    /\ mid' = escape(input, TRUE)
    /\ pc' = "unescape"
    /\ UNCHANGED <<heap, a, b, c, it, src, last, input, output>>

DoUnescape ==
    /\ pc = "unescape"
    /\ output' = unescape(mid)
    /\ pc' = "unescaped"
    /\ UNCHANGED <<heap, a, b, c, it, src, last, input, mid>>

NextEscape == DoEscape \/ DoUnescape

SpecEscape == InitEscape /\ [][NextEscape]_vars

\* C5: for every string s holding no escape sequence,
\* unescape(escape(s, escape_comma=True)) is s again.
EscapeUnescapeInverse ==
    (pc = "unescaped" /\ NoEscapeSeq(input)) => output = input

\* a string with an ampersand, a bracket and a comma went through both functions
EscapeUnescapeWitness ==
    /\ pc = "unescaped"
    /\ NoEscapeSeq(input)
    /\ input = <<"&", "[", ",">>
    /\ mid = EAMP \o ELBR \o ECOMMA

---------------------------------------------------------------------------
(* Dicts with insertion order: sequences of <<key, value>> pairs. *)

TEXT == <<"t", "e", "x", "t">>

DictHas(d, k) == \E i \in 1..Len(d) : d[i][1] = k

\* d.get(k, default)
DictGet(d, k, default) ==
    IF DictHas(d, k) THEN d[CHOOSE i \in 1..Len(d) : d[i][1] = k][2] ELSE default

\* d[k] = v: an existing key keeps its position
DictSet(d, k, v) ==
    IF DictHas(d, k)
    THEN [i \in 1..Len(d) |-> IF d[i][1] = k THEN <<k, v>> ELSE d[i]]
    ELSE Append(d, <<k, v>>)

RECURSIVE DictFromPairs(_, _)
\* {k: v for k, v in pairs}, started from d
DictFromPairs(d, pairs) ==
    IF pairs = <<>> THEN d
    ELSE DictFromPairs(DictSet(d, Head(pairs)[1], Head(pairs)[2]), Tail(pairs))

\* MessageSegment.text(text)
TextSeg(text) == [type |-> TEXT, data |-> <<<<TEXT, text>>>>]

---------------------------------------------------------------------------
(* MessageSegment.__str__ and Message.__str__, on segments [type, data]. *)

RECURSIVE JoinParams(_)
\* ','.join('{}={}'.format(k, escape(str(v))) ...), each pair with the comma before it
JoinParams(d) ==
    IF d = <<>> THEN <<>>
    ELSE COMMA \o Head(d)[1] \o <<"=">> \o escape(Head(d)[2], TRUE) \o JoinParams(Tail(d))

SegStr(seg) ==
    IF seg.type = TEXT
    THEN escape(DictGet(seg.data, TEXT, <<>>), FALSE)
    ELSE <<"[", "C", "Q", ":">> \o seg.type \o JoinParams(seg.data) \o RBR

RECURSIVE MsgStr(_)
MsgStr(segs) == IF segs = <<>> THEN <<>> ELSE SegStr(Head(segs)) \o MsgStr(Tail(segs))

---------------------------------------------------------------------------
(* Message._split_iter: the regular expression and the generator.          *)

\* [a-zA-Z0-9-_.]
NameChars ==
    {"a","b","c","d","e","f","g","h","i","j","k","l","m","n","o","p","q","r","s","t",
     "u","v","w","x","y","z","A","B","C","D","E","F","G","H","I","J","K","L","M","N",
     "O","P","Q","R","S","T","U","V","W","X","Y","Z","0","1","2","3","4","5","6","7",
     "8","9","-","_","."}

\* what str.lstrip() strips
Whitespace == {" "}

RECURSIVE RunEnd(_, _, _)
\* the index after the longest run, from i on, of characters of S
RunEnd(s, i, S) ==
    IF i <= Len(s) /\ s[i] \in S THEN RunEnd(s, i + 1, S) ELSE i

RECURSIVE ValueEnd(_, _)
\* the index after the longest run of [^,\]] from i on
ValueEnd(s, i) ==
    IF i <= Len(s) /\ s[i] \notin {",", "]"} THEN ValueEnd(s, i + 1) ELSE i

RECURSIVE ParamsEnd(_, _, _)
\* (?:,[a-zA-Z0-9-_.]+=?[^,\]]*)* from i on: the index after the last group.
\* With strict, the "=" is required (the grammar [A-Za-z0-9_.-]+=[^,\]]*).
\* No shorter match of a group lets the rest of the pattern match: what
\* follows a group is "," or "]", which neither a name nor a value holds.
ParamsEnd(s, i, strict) ==
    IF i + 1 <= Len(s) /\ s[i] = "," /\ s[i + 1] \in NameChars
    THEN LET k == RunEnd(s, i + 1, NameChars)
             hasEq == k <= Len(s) /\ s[k] = "="
         IN  IF strict /\ ~hasEq THEN i
             ELSE ParamsEnd(s, ValueEnd(s, IF hasEq THEN k + 1 ELSE k), strict)
    ELSE i

\* the pattern tried at index i: whether it matches, the index after the match,
\* and the groups "type" and "params"
MatchAtWith(s, i, strict) ==
    LET t0 == i + 4
        t1 == RunEnd(s, t0, NameChars)
        p1 == ParamsEnd(s, t1, strict)
        q  == IF p1 <= Len(s) /\ s[p1] = "," THEN p1 + 1 ELSE p1
        ok == /\ i + 3 <= Len(s)
              /\ SubSeq(s, i, i + 3) = <<"[", "C", "Q", ":">>
              /\ t1 > t0
              /\ q <= Len(s) /\ s[q] = "]"
    IN  IF ok THEN [ok |-> TRUE, end |-> q + 1,
                    type |-> SubSeq(s, t0, t1 - 1), params |-> SubSeq(s, t1, p1 - 1)]
        ELSE [ok |-> FALSE]

\* the pattern of the documented token grammar, in which "=" is required
MatchAtStrict(s, i) == MatchAtWith(s, i, TRUE)

MatchAt(s, i) == MatchAtWith(s, i, FALSE)

\* s.lstrip(chars)
LStrip(s, chars) == SubSeq(s, RunEnd(s, 1, chars), Len(s))

RECURSIVE Split(_, _)
\* s.split(ch)
Split(s, ch) ==
    IF \E i \in 1..Len(s) : s[i] = ch
    THEN LET i == CHOOSE i \in 1..Len(s) : s[i] = ch /\ \A j \in 1..(i - 1) : s[j] # ch
         IN  <<SubSeq(s, 1, i - 1)>> \o Split(SubSeq(s, i + 1, Len(s)), ch)
    ELSE <<s>>

\* x.split('=', maxsplit=1)
SplitFirstEq(x) ==
    IF \E i \in 1..Len(x) : x[i] = "="
    THEN LET i == CHOOSE i \in 1..Len(x) : x[i] = "=" /\ \A j \in 1..(i - 1) : x[j] # "="
         IN  <<SubSeq(x, 1, i - 1), SubSeq(x, i + 1, Len(x))>>
    ELSE <<x>>

RECURSIVE NameAndExtra(_, _, _)
\* iter_function_name_and_extra: re.finditer scanning from index i, text_begin tb
NameAndExtra(s, i, tb) ==
    IF i > Len(s) THEN <<<<TEXT, SubSeq(s, tb, Len(s))>>>>
    ELSE LET m == MatchAt(s, i)
         IN  IF m.ok
             THEN <<<<TEXT, SubSeq(s, tb, i - 1)>>, <<m.type, LStrip(m.params, {","})>>>>
                  \o NameAndExtra(s, m.end, m.end)
             ELSE NameAndExtra(s, i + 1, tb)

\* filter(lambda x: x, (x.lstrip() for x in extra.split(',')))
Pieces(extra) ==
    SelectSeq([i \in 1..Len(Split(extra, ",")) |-> LStrip(Split(extra, ",")[i], Whitespace)],
              LAMBDA x : x # <<>>)

\* map(lambda x: x.split('=', maxsplit=1), ...)
PiecePairs(extra) == [i \in 1..Len(Pieces(extra)) |-> SplitFirstEq(Pieces(extra)[i])]

RECURSIVE SplitItems(_)
\* The generator's yields for the (function_name, extra) pairs ne, in order:
\* [ok |-> TRUE, seg |-> a segment], or [ok |-> FALSE] where "for k, v in" raises
\* ValueError on a piece without "=", which ends the generator.
SplitItems(ne) ==
    IF ne = <<>> THEN <<>>
    ELSE LET name  == Head(ne)[1]
             extra == Head(ne)[2]
         IN  IF name = TEXT
             THEN (IF extra # <<>> THEN <<[ok |-> TRUE, seg |-> TextSeg(extra)]>> ELSE <<>>)
                  \o SplitItems(Tail(ne))
             ELSE IF \E i \in 1..Len(PiecePairs(extra)) : Len(PiecePairs(extra)[i]) # 2
                  THEN <<[ok |-> FALSE]>>
                  ELSE <<[ok |-> TRUE,
                          seg |-> [type |-> name,
                                   data |-> DictFromPairs(<<>>, PiecePairs(extra))]]>>
                       \o SplitItems(Tail(ne))

\* Message._split_iter(msg_str)
SplitIter(s) == SplitItems(NameAndExtra(s, 1, 1))

---------------------------------------------------------------------------
(* Message.append and Message.extend on the heap.                          *)
(*                                                                         *)
(* An argument of append is a record [kind, type, data, ref]:              *)
(*   kind "seg"    a MessageSegment some list already holds: type, ref     *)
(*   kind "new"    a MessageSegment the caller just built: type, data      *)
(*   kind "dict"   a plain dict: type (<<>>: no usable "type"), data       *)
(*   kind "other"  None, a number, any other value                         *)
(*   kind "raise"  (extend only) the source generator raises here          *)
(***************************************************************************)

\* the segments of message m with their data dicts read from the heap
Deref(h, m) == [i \in 1..Len(m) |-> [type |-> m[i].type, data |-> h[m[i].ref]]]

NewObj(seg) == [kind |-> "new", type |-> seg.type, data |-> seg.data, ref |-> 0]

SegObj(seg) == [kind |-> "seg", type |-> seg.type, data |-> <<>>, ref |-> seg.ref]

DictObj(type, data) == [kind |-> "dict", type |-> type, data |-> data, ref |-> 0]

OtherObj == [kind |-> "other", type |-> <<>>, data |-> <<>>, ref |-> 0]

RaiseItem == [kind |-> "raise", type |-> <<>>, data |-> <<>>, ref |-> 0]

\* MessageSegment(obj) as append calls it; ok = FALSE: it raises ValueError
Coerce(obj) ==
    IF obj.kind \in {"seg", "new"} THEN [ok |-> TRUE, seg |-> obj]
    ELSE IF obj.kind = "dict" /\ obj.type # <<>>
         THEN [ok |-> TRUE, seg |-> [obj EXCEPT !.kind = "new"]]
         ELSE [ok |-> FALSE]

\* a plausible slip: the element is added before the argument is validated
FailedAfterPush(h, m) ==
    [heap |-> Append(h, <<>>), msg |-> Append(m, [type |-> TEXT, ref |-> Len(h) + 1]),
     raised |-> TRUE]

\* what a call that raised leaves behind: "except: pass", then raise ValueError
Failed(h, m) == [heap |-> h, msg |-> m, raised |-> TRUE]

\* a plausible slip: the first element is looked at instead of the last
BothTextFirst(m, seg) == Len(m) > 0 /\ m[1].type = TEXT /\ seg.type = TEXT

\* len(self) > 0 and self[-1].type == 'text' and obj.type == 'text'
BothText(m, seg) == Len(m) > 0 /\ m[Len(m)].type = TEXT /\ seg.type = TEXT

\* Message.append(obj) on message m: the heap and the message after the call,
\* and whether it raised ValueError
AppendTo(h, m, obj) ==
    LET co == Coerce(obj)
    IN  IF ~co.ok THEN Failed(h, m)
        ELSE LET seg == co.seg
                 segData == IF seg.kind = "seg" THEN h[seg.ref] ELSE seg.data
             IN  IF BothText(m, seg)
                 THEN LET r == m[Len(m)].ref
                      IN  IF DictHas(h[r], TEXT) /\ DictHas(segData, TEXT)
                          THEN [heap |-> [h EXCEPT ![r] =
                                            DictSet(@, TEXT, DictGet(@, TEXT, <<>>)
                                                             \o DictGet(segData, TEXT, <<>>))],
                                msg |-> m, raised |-> FALSE]
                          ELSE Failed(h, m)     \* KeyError, caught by the bare except
                 ELSE IF seg.kind = "seg"
                      THEN [heap |-> h,
                            msg |-> Append(m, [type |-> seg.type, ref |-> seg.ref]),
                            raised |-> FALSE]
                      ELSE [heap |-> Append(h, seg.data),
                            msg |-> Append(m, [type |-> seg.type, ref |-> Len(h) + 1]),
                            raised |-> FALSE]

RECURSIVE ExtendFold(_, _, _)
\* Message.extend(msg) on message m, for a source that is not m itself: items
\* are what iterating the source yields
ExtendFold(h, m, items) ==
    IF items = <<>> THEN [heap |-> h, msg |-> m, raised |-> FALSE]
    ELSE IF Head(items).kind = "raise" THEN Failed(h, m)
    ELSE LET r == AppendTo(h, m, Head(items))
         IN  IF r.raised THEN r ELSE ExtendFold(r.heap, r.msg, Tail(items))

\* what iterating _split_iter(s) gives extend
StrItems(s) ==
    [i \in 1..Len(SplitIter(s)) |->
        IF SplitIter(s)[i].ok THEN NewObj(SplitIter(s)[i].seg) ELSE RaiseItem]

\* what iterating a Message gives extend: the segment objects themselves
MsgItems(m) == [i \in 1..Len(m) |-> SegObj(m[i])]

---------------------------------------------------------------------------
(* Parsing: Message(msg_str).                                              *)

ParseFrags == {<<"[", "C", "Q", ":">>,
               <<"[", "C", "Q", ":", "s", "h", "a", "r", "e">>,
               <<",", "t", "i", "t", "l", "e", "=">>,
               <<"a", "&", "#", "4", "4", ";", "b">>,
               <<",", "q", "q">>, <<",">>, <<"=">>, <<"]">>, <<"x">>, <<" ">>}

ParseInputs == {Concat(fs) : fs \in SeqUpTo(ParseFrags, MaxParseFrags)}

InitParse ==
    /\ Idle
    /\ pc = "parse"
    /\ input \in ParseInputs
    /\ mid = <<>>
    /\ output = <<>>

\* Message(input): extend from the parsed string; any exception becomes ValueError
DoParse ==
    /\ pc = "parse"
    /\ LET r == ExtendFold(<<>>, <<>>, StrItems(input))
       IN  /\ heap' = (IF r.raised THEN <<>> ELSE r.heap)
           /\ a' = (IF r.raised THEN <<>> ELSE r.msg)
           /\ last' = [op |-> "Message", raised |-> r.raised]
    /\ pc' = "parsed"
    /\ UNCHANGED <<b, c, it, src, input, mid, output>>

NextParse == DoParse

SpecParse == InitParse /\ [][NextParse]_vars

\* the raw value texts of the token [CQ:share,title=<raw>]
RawValues == {<<"x">>, <<"a", "&", "#", "4", "4", ";", "b">>,
              <<"x", "a", "&", "#", "4", "4", ";", "b">>,
              <<"a", "&", "#", "4", "4", ";", "b", "x">>}

ShareToken(raw) ==
    <<"[", "C", "Q", ":", "s", "h", "a", "r", "e", ",", "t", "i", "t", "l", "e", "=">>
    \o raw \o RBR

\* C3: the params of a parsed token hold each raw value passed through unescape:
\* [CQ:share,title=<raw>] parses to share with params {title: unescape(raw)}.
ParamValuesUnescaped ==
    pc = "parsed" =>
        \A raw \in RawValues :
            input = ShareToken(raw) =>
                /\ ~last.raised
                /\ Deref(heap, a) = <<[type |-> <<"s", "h", "a", "r", "e">>,
                                       data |-> <<<<<<"t", "i", "t", "l", "e">>,
                                                    unescape(raw)>>>>]>>

\* s holds a token of the documented grammar
\* \[CQ:[A-Za-z0-9_.-]+(,[A-Za-z0-9_.-]+=[^,\]]*)*,?\]
HasGrammarToken(s) == \E i \in 1..Len(s) : MatchAtStrict(s, i).ok

\* C4: Message(s) raises for no string s, and a string in which nothing matches
\* the token grammar parses to its own text, literally, in one text segment.
ParseTotalLenient ==
    pc = "parsed" =>
        /\ ~last.raised
        /\ ~HasGrammarToken(input) =>
               Deref(heap, a) = (IF input = <<>> THEN <<>> ELSE <<TextSeg(input)>>)

---------------------------------------------------------------------------
(* Building a Message: append and extend calls on the Message a.           *)

IMAGE == <<"i", "m", "a", "g", "e">>

\* MessageSegment.image(file)
ImageSeg(file) == [type |-> IMAGE, data |-> <<<<<<"f", "i", "l", "e">>, file>>>>]

\* the segments the caller builds
NewSegs == {TextSeg(<<"a">>), TextSeg(<<>>), ImageSeg(<<"f">>)}

\* MessageSegment(type='text'): a text segment whose data has no "text" key
BareText == [type |-> TEXT, data |-> <<>>]

\* the bounds of the model: a state within them, its text payloads of at most
\* n characters (the calls below are explored only up to these)
FitsText(h, m, n) ==
    /\ Len(m) <= MaxSegs
    /\ Len(h) <= MaxObjs
    /\ \A r \in 1..Len(h) : Len(DictGet(h[r], TEXT, <<>>)) <= n

Fits(h, m) == FitsText(h, m, MaxText)

InitBuild ==
    /\ Idle
    /\ pc = "idle"
    /\ input = <<>> /\ mid = <<>> /\ output = <<>>

\* what a caller may pass to a.append
AppendArgs ==
    {NewObj(seg) : seg \in NewSegs \cup {BareText}}
    \cup {SegObj(a[i]) : i \in 1..Len(a)}
    \cup {DictObj(TEXT, <<<<TEXT, <<"b">>>>>>), DictObj(IMAGE, <<>>), DictObj(<<>>, <<>>),
          OtherObj}

\* a.append(obj)
AppendCall(obj) ==
    /\ pc = "idle"
    /\ LET r == AppendTo(heap, a, obj)
       IN  /\ Fits(r.heap, r.msg)
           /\ heap' = r.heap
           /\ a' = r.msg
           /\ last' = [op |-> "append", raised |-> r.raised]
    /\ UNCHANGED <<b, c, pc, it, src, input, mid, output>>

\* the strings a caller passes to a.extend
ExtendStrings ==
    {<<"a">>, <<"[", "C", "Q", ":", "f", "]", "b">>,
     <<"a", "[", "C", "Q", ":", "f", ",", "q", "]">>}

\* the lists a caller passes to a.extend
ExtendLists ==
    {<<NewObj(TextSeg(<<"a">>)), NewObj(TextSeg(<<"b">>))>>,
     <<NewObj(ImageSeg(<<"f">>)), DictObj(TEXT, <<<<TEXT, <<"b">>>>>>)>>,
     <<NewObj(TextSeg(<<"a">>)), OtherObj>>}

\* a.extend(msg), entered: a str is replaced by its generator, and the for
\* loop's iterator starts. kind "self": msg is the Message a itself, which
\* the iterator reads as it is at each step. n0 is the source's length now.
ExtendBegin(source) ==
    /\ pc = "idle"
    /\ pc' = "extend"
    /\ it' = 0
    /\ src' = source
    /\ UNCHANGED <<heap, a, b, c, last, input, mid, output>>

\* the sources other than a itself, with what iterating each yields
OtherSources ==
    {[kind |-> "str", items |-> StrItems(s), n0 |-> Len(StrItems(s))] : s \in ExtendStrings}
    \cup {[kind |-> "list", items |-> l, n0 |-> Len(l)] : l \in ExtendLists}

ExtendSources == {[kind |-> "self", items |-> <<>>, n0 |-> Len(a)]} \cup OtherSources

\* what the running extend iterates over, as it is now
SrcItems == IF src.kind = "self" THEN MsgItems(a) ELSE src.items

\* one turn of "for seg in msg: self.append(seg)"; an exception (of the
\* generator or of append) leaves the loop and is raised as ValueError
ExtendStep ==
    /\ pc = "extend"
    /\ it < Len(SrcItems)
    /\ LET obj == SrcItems[it + 1]
           r == AppendTo(heap, a, obj)
       IN  IF obj.kind = "raise" \/ r.raised
           THEN /\ pc' = "idle"
                /\ it' = 0
                /\ src' = <<>>
                /\ last' = [op |-> "extend", raised |-> TRUE]
                /\ UNCHANGED <<heap, a>>
           ELSE /\ Fits(r.heap, r.msg)
                /\ heap' = r.heap
                /\ a' = r.msg
                /\ it' = it + 1
                /\ UNCHANGED <<pc, src, last>>
    /\ UNCHANGED <<b, c, input, mid, output>>

\* the iterator is exhausted: extend returns
ExtendReturn ==
    /\ pc = "extend"
    /\ it >= Len(SrcItems)
    /\ pc' = "idle"
    /\ it' = 0
    /\ src' = <<>>
    /\ last' = [op |-> "extend", raised |-> FALSE]
    /\ UNCHANGED <<heap, a, b, c, input, mid, output>>

NextBuild ==
    \/ \E obj \in AppendArgs : AppendCall(obj)
    \/ \E source \in ExtendSources : ExtendBegin(source)
    \/ ExtendStep
    \/ ExtendReturn

SpecBuild == InitBuild /\ [][NextBuild]_vars

---------------------------------------------------------------------------
(* Claims about append and extend.                                         *)

NoAdjacentText(m) ==
    \A i \in 1..(Len(m) - 1) : ~(m[i].type = TEXT /\ m[i + 1].type = TEXT)

\* the data dict of an argument of append
ObjData(h, obj) == IF obj.kind = "seg" THEN h[obj.ref] ELSE obj.data

\* what a successful append of obj is said to do, from (h, m) to (h2, m2)
AppendEffect(h, m, obj, h2, m2) ==
    IF Len(m) > 0 /\ m[Len(m)].type = TEXT /\ obj.type = TEXT
    THEN /\ Len(m2) = Len(m)
         /\ DictGet(h2[m2[Len(m2)].ref], TEXT, <<>>) =
                DictGet(h[m[Len(m)].ref], TEXT, <<>>) \o DictGet(ObjData(h, obj), TEXT, <<>>)
    ELSE /\ Len(m2) = Len(m) + 1
         /\ Deref(h2, SubSeq(m2, 1, Len(m))) = Deref(h, m)
         /\ Deref(h2, m2)[Len(m2)] = [type |-> obj.type, data |-> ObjData(h, obj)]

\* C6: from the empty Message on, through append and extend calls, no two
\* adjacent segments are both text; a successful append of text onto a last
\* text element concatenates onto it and adds no element, and every other
\* successful append adds exactly its argument at the end.
BuildMergesText ==
    /\ []NoAdjacentText(a)
    /\ [][/\ \A obj \in AppendArgs :
                (AppendCall(obj) /\ ~last'.raised) => AppendEffect(heap, a, obj, heap', a')
          /\ (ExtendStep /\ pc' = "extend") =>
                AppendEffect(heap, a, SrcItems[it + 1], heap', a')]_vars

\* text "a", then text "b", appended to the empty Message: the one segment text "ab"
BuildMergesTextWitness ==
    /\ last = [op |-> "append", raised |-> FALSE]
    /\ Deref(heap, a) = <<TextSeg(<<"a", "b">>)>>

\* MessageSegment(obj) succeeds, or obj is a MessageSegment already
Coercible(obj) == obj.kind \in {"seg", "new"} \/ (obj.kind = "dict" /\ obj.type # <<>>)

\* C9: an append whose argument cannot be coerced raises ValueError, and an
\* append that raises leaves the Message and its segments as they were.
AppendValidateThenApply ==
    [][\A obj \in AppendArgs :
          AppendCall(obj) =>
              /\ ~Coercible(obj) => last'.raised
              /\ last'.raised => (a' = a /\ heap' = heap)]_vars

\* an append has raised on a Message that ends with a text segment
AppendValidateWitness ==
    /\ last = [op |-> "append", raised |-> TRUE]
    /\ Len(a) = 2
    /\ a[2].type = TEXT

\* C10: a running extend has routed at most as many elements through append
\* as its source held when it was called.
ExtendRoutesEachOnce == pc = "extend" => it <= src.n0

---------------------------------------------------------------------------
(* Message.reduce and Message.extract_plain_text.                          *)

\* del m[p]
DelAt(m, p) == SubSeq(m, 1, p - 1) \o SubSeq(m, p + 1, Len(m))

RECURSIVE ReduceFrom(_, _, _)
\* the while loop of reduce, with idx = p - 1; a KeyError is not caught
ReduceFrom(h, m, p) ==
    IF p > Len(m) THEN [heap |-> h, msg |-> m, raised |-> FALSE]
    ELSE IF p > 1 /\ m[p - 1].type = TEXT /\ m[p].type = TEXT
         THEN IF DictHas(h[m[p - 1].ref], TEXT) /\ DictHas(h[m[p].ref], TEXT)
              THEN ReduceFrom([h EXCEPT ![m[p - 1].ref] =
                                  DictSet(@, TEXT, DictGet(@, TEXT, <<>>)
                                                   \o DictGet(h[m[p].ref], TEXT, <<>>))],
                              DelAt(m, p), p)
              ELSE [heap |-> h, msg |-> m, raised |-> TRUE]
         ELSE ReduceFrom(h, m, p + 1)

RECURSIVE ExtractLoop(_, _)
\* for seg in self: if seg.type == 'text': result += ' ' + seg.data['text']
ExtractLoop(segs, result) ==
    IF segs = <<>> THEN result
    ELSE ExtractLoop(Tail(segs),
                     IF Head(segs).type = TEXT
                     THEN result \o <<" ">> \o DictGet(Head(segs).data, TEXT, <<>>)
                     ELSE result)

RECURSIVE extractSkipEmpty(_)
\* a plausible variant: empty payloads are left out of the join
extractSkipEmpty(segs) ==
    IF segs = <<>> THEN <<>>
    ELSE LET rest == extractSkipEmpty(Tail(segs))
             p == DictGet(Head(segs).data, TEXT, <<>>)
         IN  IF Head(segs).type # TEXT \/ p = <<>> THEN rest
             ELSE IF rest = <<>> THEN p ELSE p \o <<" ">> \o rest

\* what extract_plain_text returns, after its optional reduce, on segments
\* whose text payloads are all present
extract_plain_text(segs) ==
    LET result == ExtractLoop(segs, <<>>)
    IN  IF result # <<>> THEN Tail(result) ELSE result

---------------------------------------------------------------------------
(* Message.__add__.                                                        *)

\* a + other, from heap h: the heap after the call, the Message returned,
\* and whether ValueError was raised. other is
\*   [kind |-> "msg", m]      a Message
\*   [kind |-> "seg", m]      the MessageSegment m[1]
\*   [kind |-> "list", m]     a plain list holding the segments of m
\*   [kind |-> "str", s]      a str
\*   [kind |-> "other"]       any other value: no branch is taken
AddTo(h, m, other) ==
    LET copy == ExtendFold(h, <<>>, MsgItems(m))
    IN  IF copy.raised THEN copy
        ELSE IF other.kind \in {"msg", "list"}
             THEN ExtendFold(copy.heap, copy.msg, MsgItems(other.m))
        ELSE IF other.kind = "seg"
             THEN AppendTo(copy.heap, copy.msg, SegObj(other.m[1]))
        ELSE IF other.kind = "str"
             THEN ExtendFold(copy.heap, copy.msg, StrItems(other.s))
        ELSE copy

---------------------------------------------------------------------------
(* The Message a under append, item assignment, reduce and                 *)
(* extract_plain_text; the Messages a and b under append and +.            *)

Init == InitBuild

\* the segment objects a caller can hold: new ones, and those a and b hold
SegArgs ==
    {NewObj(seg) : seg \in NewSegs}
    \cup {SegObj(a[i]) : i \in 1..Len(a)}
    \cup {SegObj(b[i]) : i \in 1..Len(b)}

\* b.append(obj)
AppendB(obj) ==
    /\ pc = "idle"
    /\ LET r == AppendTo(heap, b, obj)
       IN  /\ Fits(r.heap, r.msg)
           /\ heap' = r.heap
           /\ b' = r.msg
           /\ last' = [op |-> "appendb", raised |-> r.raised]
    /\ UNCHANGED <<a, c, pc, it, src, input, mid, output>>

\* a[i] = obj: list.__setitem__, which Message inherits as it is
SetItem(i, obj) ==
    /\ pc = "idle"
    /\ i \in 1..Len(a)
    /\ LET h2 == IF obj.kind = "seg" THEN heap ELSE Append(heap, obj.data)
           r  == IF obj.kind = "seg" THEN obj.ref ELSE Len(heap) + 1
       IN  /\ Len(h2) <= MaxObjs
           /\ heap' = h2
           /\ a' = [a EXCEPT ![i] = [type |-> obj.type, ref |-> r]]
    /\ last' = [op |-> "setitem", raised |-> FALSE]
    /\ UNCHANGED <<b, c, pc, it, src, input, mid, output>>

\* a.reduce()
ReduceCall ==
    /\ pc = "idle"
    /\ LET r == ReduceFrom(heap, a, 1)
       IN  /\ FitsText(r.heap, r.msg, MaxReduced)
           /\ heap' = r.heap
           /\ a' = r.msg
           /\ last' = [op |-> "reduce", raised |-> r.raised]
    /\ UNCHANGED <<b, c, pc, it, src, input, mid, output>>

\* a.extract_plain_text(reduce)
ExtractCall(reduce) ==
    /\ pc = "idle"
    /\ LET r == IF reduce THEN ReduceFrom(heap, a, 1)
                ELSE [heap |-> heap, msg |-> a, raised |-> FALSE]
       IN  /\ FitsText(r.heap, r.msg, MaxReduced)
           /\ heap' = r.heap
           /\ a' = r.msg
           /\ last' = [op |-> IF reduce THEN "extract_reduce" ELSE "extract",
                       raised |-> r.raised,
                       ret |-> IF r.raised THEN <<>>
                               ELSE extract_plain_text(Deref(r.heap, r.msg))]
    /\ UNCHANGED <<b, c, pc, it, src, input, mid, output>>

\* the right operands of a + other
AddArgs ==
    {[kind |-> k, m |-> b, s |-> <<>>] : k \in {"msg", "list", "other"}}
    \cup {[kind |-> "seg", m |-> b, s |-> <<>>] : k \in {x \in {1} : b # <<>>}}
    \cup {[kind |-> "str", m |-> <<>>, s |-> s] : s \in ExtendStrings}

\* c = a + other
AddCall(other) ==
    /\ pc = "idle"
    /\ LET r == AddTo(heap, a, other)
       IN  /\ Fits(r.heap, r.msg)
           /\ heap' = r.heap
           /\ c' = (IF r.raised THEN <<>> ELSE r.msg)
           /\ last' = [op |-> "add", raised |-> r.raised]
    /\ UNCHANGED <<a, b, pc, it, src, input, mid, output>>

Next ==
    \/ \E obj \in SegArgs : AppendCall(obj)
    \/ \E i \in 1..MaxSegs, obj \in SegArgs : SetItem(i, obj)
    \/ ReduceCall
    \/ \E reduce \in BOOLEAN : ExtractCall(reduce)

Spec == Init /\ [][Next]_vars

NextAdd ==
    \/ \E obj \in SegArgs : AppendCall(obj)
    \/ \E obj \in SegArgs : AppendB(obj)
    \/ \E other \in AddArgs : AddCall(other)

SpecAdd == Init /\ [][NextAdd]_vars

---------------------------------------------------------------------------
(* Claims about +, reduce and extract_plain_text.                          *)

\* C1: a + other leaves both operands as they were: the same segments, with
\* the same types and the same data.
AddKeepsOperands ==
    [][\A other \in AddArgs :
          AddCall(other) =>
              /\ Deref(heap', a) = Deref(heap, a)
              /\ Deref(heap', b) = Deref(heap, b)]_vars

RECURSIVE MergeRuns(_)
\* segs with each run of adjacent text segments made one text segment, whose
\* payload is the run's payloads concatenated in order
MergeRuns(segs) ==
    IF Len(segs) < 2 THEN segs
    ELSE IF segs[1].type = TEXT /\ segs[2].type = TEXT
         THEN MergeRuns(<<TextSeg(DictGet(segs[1].data, TEXT, <<>>)
                                  \o DictGet(segs[2].data, TEXT, <<>>))>>
                        \o SubSeq(segs, 3, Len(segs)))
         ELSE <<segs[1]>> \o MergeRuns(Tail(segs))

\* C7: after reduce no two adjacent segments are both text, each run of
\* adjacent text segments has become one text segment holding the run's
\* payloads in order, and a second reduce changes nothing.
ReduceNormalizes ==
    [][ReduceCall =>
          /\ ~last'.raised
          /\ NoAdjacentText(a')
          /\ Deref(heap', a') = MergeRuns(Deref(heap, a))
          /\ ReduceFrom(heap', a', 1) = [heap |-> heap', msg |-> a', raised |-> FALSE]]_vars

RECURSIVE JoinSpace(_)
\* ' '.join(ps)
JoinSpace(ps) ==
    IF ps = <<>> THEN <<>>
    ELSE IF Len(ps) = 1 THEN ps[1]
    ELSE ps[1] \o <<" ">> \o JoinSpace(Tail(ps))

\* the payloads of the text segments of segs, in order
TextPayloads(segs) ==
    LET texts == SelectSeq(segs, LAMBDA seg : seg.type = TEXT)
    IN  [i \in 1..Len(texts) |-> DictGet(texts[i].data, TEXT, <<>>)]

---------------------------------------------------------------------------
(* Composing a Message and parsing the string again.                       *)

\* the segments of the Messages that are composed
RoundTripSegs ==
    {TextSeg(<<"a">>), TextSeg(<<"&">>), TextSeg(<<",">>), TextSeg(<<"[", "a", "]">>),
     [type |-> <<"f">>, data |-> <<>>],
     [type |-> <<"f">>, data |-> <<<<<<"k">>, <<"a", ",", "b">>>>>>],
     [type |-> <<"f">>, data |-> <<<<<<"k">>, <<"a">>>>, <<<<"j">>, <<"&", "]">>>>>>]}

InitRoundTrip ==
    /\ \E segs \in SeqUpTo(RoundTripSegs, MaxRoundTrip) :
          /\ heap = [i \in 1..Len(segs) |-> segs[i].data]
          /\ a = [i \in 1..Len(segs) |-> [type |-> segs[i].type, ref |-> i]]
    /\ b = <<>> /\ c = <<>> /\ it = 0 /\ src = <<>> /\ last = [op |-> "none"]
    /\ pc = "compose"
    /\ input = <<>> /\ mid = <<>> /\ output = <<>>

\* mid = str(a)
DoCompose ==
    /\ pc = "compose"
    /\ mid' = MsgStr(Deref(heap, a))
    /\ pc' = "reparse"
    /\ UNCHANGED <<heap, a, b, c, it, src, last, input, output>>

\* c = Message(mid)
DoReparse ==
    /\ pc = "reparse"
    /\ LET r == ExtendFold(heap, <<>>, StrItems(mid))
       IN  /\ heap' = (IF r.raised THEN heap ELSE r.heap)
           /\ c' = (IF r.raised THEN <<>> ELSE r.msg)
           /\ last' = [op |-> "Message", raised |-> r.raised]
    /\ pc' = "reduce"
    /\ UNCHANGED <<a, b, it, src, input, mid, output>>

\* a.reduce()
DoReduce ==
    /\ pc = "reduce"
    /\ LET r == ReduceFrom(heap, a, 1)
       IN  /\ heap' = r.heap
           /\ a' = r.msg
    /\ pc' = "compared"
    /\ UNCHANGED <<b, c, it, src, last, input, mid, output>>

NextRoundTrip == DoCompose \/ DoReparse \/ DoReduce

SpecRoundTrip == InitRoundTrip /\ [][NextRoundTrip]_vars

\* C2: Message(str(m)) is built without an error and equals m after
\* m.reduce(): the same types, params and text payloads in the same order.
RoundTrip ==
    pc = "compared" => (~last.raised /\ Deref(heap, c) = Deref(heap, a))

=============================================================================
